---- MODULE Spec2Model ----
(***************************************************************************)
(* State machine of src/signals.js: State, Computed and Watcher entities,  *)
(* the process-wide Signal[currentComputed] slot and the microtask queue.  *)
(*                                                                         *)
(* A JavaScript Set is modelled as a sequence without duplicates (its      *)
(* insertion order).  Every synchronous library call is one action, except *)
(* Computed.get() on a dirty Computed, whose derivation runs one read at a *)
(* time on an explicit call stack, so that states in which a get() is in   *)
(* progress are visible.                                                   *)
(***************************************************************************)
EXTENDS Integers, Sequences, FiniteSets, TLC

\* ------------------------------------------------------------------ bounds
\* State values are drawn from 1..MaxVal (one more for a State with a custom
\* equality, so that distinct values can be equal under it).
MaxVal == 2
\* Saturation point of the bookkeeping counters (evals, callsTurn).
CountCap == 2
\* The number of nested get() calls the host's call stack holds: one more
\* call raises a RangeError.
MaxDepth == 4

\* ---------------------------------------------------------------- entities
States == {"s1", "s2"}
Computeds == {"c1", "c2", "c3"}
Watchers == {"w1", "w2"}
Signals == States \cup Computeds

\* An argument that is neither a State nor a Computed (a plain object).
NotASignal == "notASignal"

\* Signal[currentComputed] when no Computed is evaluating.
Null == "null"
\* The unique marker a Computed's #value holds before its first evaluation.
initial == -1

\* The programs (user-written derivations, options and calls) explored.
Configs ==
    {"diamond", "direct", "dynamic", "nested", "watch", "pair", "react", "untracked", "effect",
     "frozen", "cycle"}

\* ----------------------------------------------------------- JS Set helpers
Range(q) == {q[i] : i \in 1..Len(q)}

SetHas(q, x) == x \in Range(q)

SetAdd(q, x) == IF SetHas(q, x) THEN q ELSE Append(q, x)

SetDelete(q, x) == SelectSeq(q, LAMBDA y : y # x)

NoDup(q) == \A i, j \in 1..Len(q) : q[i] = q[j] => i = j

\* --------------------------------------------------------- user-written code
\* One read of a derivation: sig.get(), multiplied by mul; track = FALSE
\* wraps the read in Signal.subtle.untrack; guard "ifOdd" performs the read
\* only when the derivation's first read returned an odd number.
Rd(sig, mul, track, guard) == [sig |-> sig, mul |-> mul, track |-> track, guard |-> guard]

\* The derivation of each Computed: the reads it performs, in order; its
\* result is the sum of mul * value over the reads performed.
computation(g, c) ==
    IF g = "diamond" THEN
        \* root = s1, left = c1, right = c2, sum = c3 (signals.test.js)
        CASE c = "c1" -> <<Rd("s1", 2, TRUE, "always")>>
          [] c = "c2" -> <<Rd("s1", 3, TRUE, "always")>>
          [] OTHER    -> <<Rd("c1", 1, TRUE, "always"), Rd("c2", 1, TRUE, "always")>>
    ELSE IF g = "direct" THEN
        <<Rd("s1", 3, TRUE, "always"), Rd("s2", 1, TRUE, "always")>>
    ELSE IF g = "dynamic" THEN
        <<Rd("s1", 1, TRUE, "always"), Rd("s2", 1, TRUE, "ifOdd")>>
    ELSE IF g = "cycle" THEN
        \* c1 = c2 + s1 and c2 = c1: each reads the other
        CASE c = "c1" -> <<Rd("c2", 1, TRUE, "always"), Rd("s1", 1, TRUE, "always")>>
          [] OTHER    -> <<Rd("c1", 1, TRUE, "always")>>
    ELSE IF g = "effect" THEN
        <<Rd("s1", 2, TRUE, "always"), Rd("s2", 1, TRUE, "always")>>
    ELSE IF g = "untracked" THEN
        <<Rd("s1", 1, TRUE, "always"), Rd("s2", 1, FALSE, "always")>>
    ELSE IF g = "nested" THEN
        CASE c = "c1" -> <<Rd("s1", 1, TRUE, "always")>>
          [] c = "c2" -> <<Rd("c1", 1, TRUE, "always"), Rd("s2", 1, TRUE, "always")>>
          [] OTHER    -> <<Rd("c2", 1, FALSE, "always"), Rd("s1", 1, TRUE, "always")>>
    ELSE
        <<Rd("s1", 1, TRUE, "always")>>

\* Whether the derivation of c raises an error instead of returning val.
computationThrows(g, c, val) == g = "nested" /\ c = "c1" /\ val = 2

\* options.equals of each entity: "is" is the default Object.is, "parity" a
\* custom check (a, b) => typeof a === typeof b && a % 2 === b % 2, "always"
\* the check () => true.
optionsEquals(g, x) ==
    IF (g \in {"direct", "effect"} /\ x = "c1") \/ (g = "watch" /\ x = "s2")
    THEN "parity"
    ELSE IF g = "frozen" /\ x = "c1" THEN "always"
    ELSE "is"

\* Object.is on the modelled values (numbers and the initial marker), and the
\* custom checks.
equals(kind, a, b) ==
    IF kind = "is" THEN a = b
    ELSE IF kind = "always" THEN TRUE
    ELSE a # initial /\ b # initial /\ (a % 2) = (b % 2)

\* The Computeds the program constructs, the States it writes with the
\* values it writes, and the signals it hands to each Watcher.
Made(g) ==
    IF g \in {"watch", "pair", "react"} THEN {}
    ELSE IF g \in {"direct", "dynamic", "untracked", "effect", "frozen"} THEN {"c1"}
    ELSE IF g = "cycle" THEN {"c1", "c2"}
    ELSE Computeds

Written(g) ==
    IF g \in {"diamond", "nested", "pair", "react", "frozen", "cycle"} THEN {"s1"} ELSE States

Vals(g, s) == IF optionsEquals(g, s) = "parity" THEN 1..(MaxVal + 1) ELSE 1..MaxVal

Watchable(g, w) ==
    IF g = "watch" THEN (IF w = "w1" THEN {"s1", "s2"} ELSE {})
    ELSE IF g = "pair" THEN {"s1"}
    ELSE IF g = "react" /\ w = "w1" THEN {"s1"}
    ELSE IF g = "effect" /\ w = "w1" THEN {"c1"}
    ELSE IF g = "nested" /\ w = "w1" THEN {"c2"}
    ELSE {}

\* Whether the entity was created with options[Signal.subtle.watched] /
\* options[Signal.subtle.unwatched] set to a function.
optionsWatched(g, x) == g = "pair" /\ x = "s1"

optionsUnwatched(g, x) == g = "pair" /\ x = "s1"

\* Whether the program calls watch / unwatch with an argument list that
\* holds NotASignal.
PassesInvalid(g) == g = "pair"

\* Whether the Watcher's user callback calls s.set(...).
CallbackSets(g, w, s) == g = "react" /\ w = "w1" /\ s = "s1"

\* Whether the Watcher's user callback may raise.
CallbackMayThrow(g, w) == g \in {"watch", "pair"} /\ w = "w1"

\* -------------------------------------------------------------------- state
VARIABLES
    cfg,              \* the program being run (fixed after Init)
    value,            \* State #value
    dirty,            \* Computed #dirty
    cvalue,           \* Computed #value
    sources,          \* [sources] of each Computed and Watcher
    sinks,            \* [sinks] of each State and Computed
    pending,          \* Watcher #pending
    scheduled,        \* Watcher #scheduled
    isWatched,        \* [isWatched] of each State and Computed
    currentComputed,  \* Signal[currentComputed]
    microtasks,       \* the host's microtask queue: Watchers with a queued firing
    stack,            \* the Computed.get() calls in progress, innermost last
    raising,          \* an error raised by a derivation is unwinding the stack
    ctx,              \* "task": user code runs; "idle": microtask checkpoint;
                      \* "callback": a Watcher's user callback runs
    cbw,              \* the Watcher whose user callback runs, or Null
    \* -- observation only (never read by the library operators)
    ran,              \* Computeds whose derivation was invoked by the last step
    invoked,          \* Watchers whose user callback was invoked by the last step
    ret,              \* what the last top-level get() returned
    lastSet,          \* the State.set call made by the last step: its State and argument
    notified,         \* per Watcher: signals that notified it since its last firing ended
    evals,            \* per Computed: derivation runs that returned since the last value-changing set
    changed,          \* per Computed: a State it reads was changed since its last top-level get()
    notifiedTurn,     \* per Watcher: value-changing sets of watched States by the current task
    hooks,            \* the watched / unwatched hooks invoked by the last step, in call order
    fired,            \* the Watcher whose queued microtask ran in the last step, or Null
    thrown,           \* the error the library call of the last step exited with, or Null
    released,         \* per Watcher: signals whose edge an unwatch() removed while no firing
                      \* of the Watcher was scheduled, and which it has not watched since
    callsTurn,        \* per Watcher: callback invocations since the current task began
    callsSet          \* per Watcher: callback invocations since the last value-changing set

libVars == <<value, dirty, cvalue, sources, sinks, pending, scheduled, isWatched, currentComputed,
             microtasks>>
ctlVars == <<cfg, stack, raising, ctx, cbw>>
obsVars == <<ran, invoked, ret, lastSet, notified, evals, changed, notifiedTurn, callsTurn, hooks,
             fired, thrown, released, callsSet>>
vars == <<libVars, ctlVars, obsVars>>

\* The library's heap as one record, threaded through the operators below.
\* ran, invoked, hooks, fired, thrown, notified and released only log what
\* the operators did.
Heap ==
    [value |-> value, dirty |-> dirty, cvalue |-> cvalue, sources |-> sources,
     sinks |-> sinks, pending |-> pending, scheduled |-> scheduled,
     isWatched |-> isWatched, cur |-> currentComputed, queue |-> microtasks,
     ran |-> {}, invoked |-> {}, hooks |-> <<>>, fired |-> Null, thrown |-> Null,
     notified |-> notified, released |-> released]

Commit(h) ==
    /\ value' = h.value
    /\ dirty' = h.dirty
    /\ cvalue' = h.cvalue
    /\ sources' = h.sources
    /\ sinks' = h.sinks
    /\ pending' = h.pending
    /\ scheduled' = h.scheduled
    /\ isWatched' = h.isWatched
    /\ currentComputed' = h.cur
    /\ microtasks' = h.queue
    /\ ran' = h.ran
    /\ invoked' = h.invoked
    /\ notified' = h.notified
    /\ hooks' = h.hooks
    /\ fired' = h.fired
    /\ thrown' = h.thrown
    /\ released' = h.released

\* ------------------------------------------------------------ Signal.subtle
introspectSources(h, x) == h.sources[x]

introspectSinks(h, x) == h.sinks[x]

hasSources(h, x) == Len(h.sources[x]) # 0

hasSinks(h, x) == Len(h.sinks[x]) # 0

\* queueMicrotask(cb) for the firing of Watcher w.
queueMicrotask(h, w) == [h EXCEPT !.queue = Append(@, w)]

\* ------------------------------------------------------------------ Watcher
\* typeof signal[onWatch] === 'function': the constructor bound the hook
\* given in the options.
onWatch(g, x) == optionsWatched(g, x)

onUnwatch(g, x) == optionsUnwatched(g, x)

getPending(h, w) == h.pending[w]

\* A Watcher[notify] that calls the user callback at once instead of queueing.
WatcherNotifySync(h, w, signal) ==
    LET h0 == [h EXCEPT !.notified[w] = @ \cup {signal}]
        h1 == [h0 EXCEPT !.pending[w] = SetAdd(@, signal)]
    IN  [h1 EXCEPT !.invoked = @ \cup {w}, !.pending[w] = <<>>]

\* A Watcher[notify] that forgets the #scheduled check.
WatcherNotifyAlways(h, w, signal) ==
    LET h0 == [h EXCEPT !.notified[w] = @ \cup {signal}]
        h1 == [h0 EXCEPT !.pending[w] = SetAdd(@, signal)]
    IN  queueMicrotask([h1 EXCEPT !.scheduled[w] = TRUE], w)

\* Watcher[notify](signal)
WatcherNotify(h, w, signal) ==
    LET h0 == [h EXCEPT !.notified[w] = @ \cup {signal}]
        h1 == [h0 EXCEPT !.pending[w] = SetAdd(@, signal)]
    IN  IF ~h1.scheduled[w]
        THEN queueMicrotask([h1 EXCEPT !.scheduled[w] = TRUE], w)
        ELSE h1

\* A watch() that keeps its edges in arrays: it appends without a
\* membership test.
WatcherWatchAppend(h, w, signal) ==
    LET h0 == [h EXCEPT !.released[w] = @ \ {signal}]
        h1 == IF onWatch(cfg, signal) /\ ~h0.isWatched[signal]
              THEN [h0 EXCEPT !.hooks = Append(@, <<"watched", signal>>)]
              ELSE h0
    IN  [h1 EXCEPT !.sources[w] = Append(@, signal), !.sinks[signal] = Append(@, w)]

\* A watch() that records the edge on the Watcher's side only.
WatcherWatchOneSided(h, w, signal) ==
    LET h0 == [h EXCEPT !.released[w] = @ \ {signal}]
        h1 == IF onWatch(cfg, signal) /\ ~h0.isWatched[signal]
              THEN [h0 EXCEPT !.hooks = Append(@, <<"watched", signal>>)]
              ELSE h0
    IN  [h1 EXCEPT !.sources[w] = SetAdd(@, signal)]

\* watch(signal) for one State or Computed: calls the watched hook, then
\* records the edge on both sides.
WatcherWatch(h, w, signal) ==
    LET h0 == [h EXCEPT !.released[w] = @ \ {signal}]
        h1 == IF onWatch(cfg, signal) /\ ~h0.isWatched[signal]
              THEN [h0 EXCEPT !.hooks = Append(@, <<"watched", signal>>)]
              ELSE h0
    IN  [h1 EXCEPT !.sources[w] = SetAdd(@, signal), !.sinks[signal] = SetAdd(@, w)]

\* An unwatch() that leaves the Watcher in the signal's sink set.
WatcherUnwatchKeepSink(h, w, signal) ==
    LET h0 == IF SetHas(h.sources[w], signal) /\ ~h.scheduled[w]
              THEN [h EXCEPT !.released[w] = @ \cup {signal}]
              ELSE h
        h1 == IF onUnwatch(cfg, signal) /\ h0.isWatched[signal]
              THEN [h0 EXCEPT !.hooks = Append(@, <<"unwatched", signal>>)]
              ELSE h0
    IN  [h1 EXCEPT !.sources[w] = SetDelete(@, signal)]

\* unwatch(signal) for one State or Computed: calls the unwatched hook, then
\* removes the edge on both sides.
WatcherUnwatch(h, w, signal) ==
    LET h0 == IF SetHas(h.sources[w], signal) /\ ~h.scheduled[w]
              THEN [h EXCEPT !.released[w] = @ \cup {signal}]
              ELSE h
        h1 == IF onUnwatch(cfg, signal) /\ h0.isWatched[signal]
              THEN [h0 EXCEPT !.hooks = Append(@, <<"unwatched", signal>>)]
              ELSE h0
    IN  [h1 EXCEPT !.sinks[signal] = SetDelete(@, w), !.sources[w] = SetDelete(@, signal)]

\* w.watch(...signals): the loop over the argument list, ended by the
\* TypeError at the first argument that is no State or Computed.
RECURSIVE WatcherWatchAll(_, _, _)
WatcherWatchAll(h, w, signals) ==
    IF signals = <<>> THEN h
    ELSE IF Head(signals) \notin Signals THEN [h EXCEPT !.thrown = "TypeError"]
    ELSE WatcherWatchAll(WatcherWatch(h, w, Head(signals)), w, Tail(signals))

\* w.unwatch(...signals), likewise.
RECURSIVE WatcherUnwatchAll(_, _, _)
WatcherUnwatchAll(h, w, signals) ==
    IF signals = <<>> THEN h
    ELSE IF Head(signals) \notin Signals THEN [h EXCEPT !.thrown = "TypeError"]
    ELSE WatcherUnwatchAll(WatcherUnwatch(h, w, Head(signals)), w, Tail(signals))

\* ----------------------------------------------------------------- Computed
RECURSIVE ComputedNotify(_, _, _)
RECURSIVE NotifySinks(_, _, _)

\* sink[notify](source), dispatched on the sink's class
Notify(h, sink, source) ==
    IF sink \in Computeds THEN ComputedNotify(h, sink, source)
    ELSE WatcherNotify(h, sink, source)

\* for (const sink of Signal.subtle.introspectSinks(source)) sink[notify](source)
\* over the array q the loop copied before it began
NotifySinks(h, q, source) ==
    IF q = <<>> THEN h
    ELSE NotifySinks(Notify(h, Head(q), source), Tail(q), source)

\* Computed[notify](source)
ComputedNotify(h, c, source) ==
    LET h1 == [h EXCEPT !.dirty[c] = TRUE,
                        !.sources[c] = SetAdd(@, source),
                        !.sinks[source] = SetAdd(@, c)]
    IN  NotifySinks(h1, introspectSinks(h1, c), c)

\* The loop of Computed.get() that removes c from the sink set of every
\* member of q.
RECURSIVE DeleteFromSinks(_, _, _)
DeleteFromSinks(h, q, c) ==
    IF q = <<>> THEN h
    ELSE DeleteFromSinks([h EXCEPT !.sinks[Head(q)] = SetDelete(@, c)], Tail(q), c)

\* Computed.get(), from its entry to the test of #dirty: records the caller,
\* makes c the active computation.
ComputedGetEnter(h, c) ==
    LET oldComputed == h.cur
        h1 == IF oldComputed # c /\ oldComputed # Null
              THEN [h EXCEPT !.sources[c] = SetAdd(@, oldComputed)]
              ELSE h
    IN  [h1 EXCEPT !.cur = c]

\* A Computed.get() that has left the dirty state when its derivation
\* raises.
ComputedGetThrowClean(h, c) == [h EXCEPT !.thrown = "Error", !.dirty[c] = FALSE]

\* Computed.get() whose derivation raised: nothing between the call of the
\* derivation and the finally block runs, the error leaves get().
ComputedGetThrow(h, c) == [h EXCEPT !.thrown = "Error"]

\* A Computed.get() that stores the result and notifies the sinks without
\* comparing it to the cached value.
ComputedGetFinishUngated(h, c, val) ==
    LET h1 == [h EXCEPT !.sources[c] = <<>>]
        h2 == DeleteFromSinks(h1, introspectSources(h1, c), c)
        h3 == NotifySinks([h2 EXCEPT !.cvalue[c] = val], introspectSinks(h2, c), c)
    IN  [h3 EXCEPT !.dirty[c] = FALSE]

\* A Computed.get() that never leaves the dirty state.
ComputedGetFinishStayDirty(h, c, val) ==
    LET h1 == [h EXCEPT !.sources[c] = <<>>]
        h2 == DeleteFromSinks(h1, introspectSources(h1, c), c)
    IN  IF ~equals(optionsEquals(cfg, c), val, h2.cvalue[c])
        THEN NotifySinks([h2 EXCEPT !.cvalue[c] = val], introspectSinks(h2, c), c)
        ELSE h2

\* Computed.get(), after the derivation returned val: clears the source set,
\* stores a changed value and notifies the sinks, leaves the dirty state.
ComputedGetFinish(h, c, val) ==
    LET h1 == [h EXCEPT !.sources[c] = <<>>]
        h2 == DeleteFromSinks(h1, introspectSources(h1, c), c)
        h3 == IF ~equals(optionsEquals(cfg, c), val, h2.cvalue[c])
              THEN NotifySinks([h2 EXCEPT !.cvalue[c] = val], introspectSinks(h2, c), c)
              ELSE h2
    IN  [h3 EXCEPT !.dirty[c] = FALSE]

\* The value Computed.get() returns when the Computed is clean.
ComputedGetReturn(h, c) == h.cvalue[c]

\* -------------------------------------------------------------------- State
\* A State.get() that records the edge on the Computed's side only.
StateGetOneSided(h, s) ==
    IF h.cur \in Computeds /\ ~SetHas(h.sources[h.cur], s)
    THEN [h EXCEPT !.sources[h.cur] = SetAdd(@, s)]
    ELSE h

\* State.get(): records the edge to the active computation, if any.
StateGet(h, s) ==
    IF h.cur \in Computeds /\ ~SetHas(h.sources[h.cur], s)
    THEN [h EXCEPT !.sources[h.cur] = SetAdd(@, s), !.sinks[s] = SetAdd(@, h.cur)]
    ELSE h

\* The value State.get() returns.
StateGetReturn(h, s) == h.value[s]

\* A State.set() that re-runs the derivations of its Computed sinks at once.
StateSetEager(h, s, newValue) ==
    IF ~equals(optionsEquals(cfg, s), h.value[s], newValue)
    THEN LET h1 == [h EXCEPT !.value[s] = newValue]
             h2 == NotifySinks(h1, introspectSinks(h1, s), s)
         IN  [h2 EXCEPT !.ran = @ \cup (Range(introspectSinks(h1, s)) \cap Computeds)]
    ELSE h

\* A State.set() without the equality gate.
StateSetUngated(h, s, newValue) ==
    LET h1 == [h EXCEPT !.value[s] = newValue]
    IN  NotifySinks(h1, introspectSinks(h1, s), s)

\* A State.set() that notifies but keeps the old value.
StateSetNoStore(h, s, newValue) ==
    IF ~equals(optionsEquals(cfg, s), h.value[s], newValue)
    THEN NotifySinks(h, introspectSinks(h, s), s)
    ELSE h

\* State.set(newValue)
StateSet(h, s, newValue) ==
    IF ~equals(optionsEquals(cfg, s), h.value[s], newValue)
    THEN LET h1 == [h EXCEPT !.value[s] = newValue]
         IN  NotifySinks(h1, introspectSinks(h1, s), s)
    ELSE h

\* An untrack that leaves Signal[currentComputed] in place.
untrackLeaky(h, s) ==
    LET prev == h.cur
        h1 == StateGet(h, s)
    IN  [h1 EXCEPT !.cur = prev]

\* Signal.subtle.untrack(() => s.get()) for a State s
untrack(h, s) ==
    LET prev == h.cur
        h1 == StateGet([h EXCEPT !.cur = Null], s)
    IN  [h1 EXCEPT !.cur = prev]

\* ------------------------------------------------------------ bookkeeping
NoRet == [sig |-> Null, val |-> 0, afterChange |-> FALSE]

NoSet == [s |-> Null, arg |-> 0]

Min(a, b) == IF a < b THEN a ELSE b

Bump(f, S) == [x \in DOMAIN f |-> IF x \in S THEN Min(f[x] + 1, CountCap) ELSE f[x]]

\* c reads only States, each with a tracked get().
DirectOnly(g, c) ==
    \A i \in 1..Len(computation(g, c)) :
        computation(g, c)[i].sig \in States /\ computation(g, c)[i].track

\* c reads its inputs (States or Computeds) with tracked get() calls only.
TrackedOnly(g, c) ==
    \A i \in 1..Len(computation(g, c)) : computation(g, c)[i].track

ReadsSig(g, c, x) ==
    \E i \in 1..Len(computation(g, c)) : computation(g, c)[i].sig = x

\* The value the derivation of c gives on the State values vs.
RECURSIVE EvalRef(_, _, _)
EvalRef(g, c, vs) ==
    LET rs == computation(g, c)
        rv(i) == IF rs[i].sig \in States THEN vs[rs[i].sig] ELSE EvalRef(g, rs[i].sig, vs)
        term(i) == IF rs[i].guard = "ifOdd" /\ rv(1) % 2 = 0 THEN 0 ELSE rs[i].mul * rv(i)
    IN  IF Len(rs) = 1 THEN term(1) ELSE term(1) + term(2)

Observe(h, r, ls, ev, ch, nt) ==
    /\ ret' = r
    /\ lastSet' = ls
    /\ evals' = ev
    /\ changed' = ch
    /\ notifiedTurn' = nt
    /\ callsTurn' = Bump(callsTurn, h.invoked)
    /\ callsSet' = Bump(IF h.value # value THEN [w \in Watchers |-> 0] ELSE callsSet, h.invoked)

\* ------------------------------------------------------------------ control
Frame(c, old, ut, prev) ==
    [c |-> c, old |-> old, pc |-> 1, acc |-> 0, first |-> 0, ut |-> ut, prev |-> prev]

Top == stack[Len(stack)]

Pop == SubSeq(stack, 1, Len(stack) - 1)

\* The frame f after its pending read returned v.
Deliver(f, v) ==
    [f EXCEPT !.acc = @ + computation(cfg, f.c)[f.pc].mul * v,
              !.first = IF f.pc = 1 THEN v ELSE @,
              !.pc = @ + 1]

\* An exit that runs the finally block of Computed.get() only, and not the
\* one of an enclosing untrack.
RestoreGetOnly(h, f) == [h EXCEPT !.cur = f.old]

\* The finally blocks run when the get() of frame f exits: Computed.get()
\* restores oldComputed, then an enclosing untrack restores prev.
Restore(h, f) == [h EXCEPT !.cur = IF f.ut THEN f.prev ELSE f.old]

\* The task's code may call the library: no call is in progress.
CanCall ==
    /\ stack = <<>>
    /\ ~raising
    /\ ctx = "task"

Init ==
    /\ cfg \in Configs
    /\ value = [s \in States |-> 1]
    /\ dirty = [c \in Computeds |-> TRUE]
    /\ cvalue = [c \in Computeds |-> initial]
    /\ sources = [x \in Computeds \cup Watchers |-> <<>>]
    /\ sinks = [x \in Signals |-> <<>>]
    /\ pending = [w \in Watchers |-> <<>>]
    /\ scheduled = [w \in Watchers |-> FALSE]
    /\ isWatched = [x \in Signals |-> FALSE]
    /\ currentComputed = Null
    /\ microtasks = <<>>
    /\ stack = <<>>
    /\ raising = FALSE
    /\ ctx = "task"
    /\ cbw = Null
    /\ ran = {}
    /\ invoked = {}
    /\ ret = NoRet
    /\ lastSet = NoSet
    /\ notified = [w \in Watchers |-> {}]
    /\ evals = [c \in Computeds |-> 0]
    /\ changed = [c \in Computeds |-> FALSE]
    /\ notifiedTurn = [w \in Watchers |-> 0]
    /\ callsTurn = [w \in Watchers |-> 0]
    /\ callsSet = [w \in Watchers |-> 0]
    /\ hooks = <<>>
    /\ fired = Null
    /\ thrown = Null
    /\ released = [w \in Watchers |-> {}]

\* The running user callback may call s.set(...).
CallbackCanSet(s) ==
    /\ stack = <<>>
    /\ ~raising
    /\ ctx = "callback"
    /\ CallbackSets(cfg, cbw, s)

\* s.set(v) called by user code: the task, or a Watcher's callback
Set(s, v) ==
    /\ CanCall \/ CallbackCanSet(s)
    /\ s \in Written(cfg)
    /\ v \in Vals(cfg, s)
    /\ LET h == StateSet(Heap, s, v)
           chg == ~equals(optionsEquals(cfg, s), value[s], v)
       IN  /\ Commit(h)
           /\ Observe(h, NoRet,
                      [s |-> s, arg |-> v],
                      IF chg THEN [c \in Computeds |-> 0] ELSE evals,
                      IF chg THEN [c \in Computeds |->
                                      changed[c] \/ (DirectOnly(cfg, c) /\ ReadsSig(cfg, c, s)
                                                     /\ cvalue[c] # initial)]
                             ELSE changed,
                      IF chg /\ ctx = "task"
                      THEN Bump(notifiedTurn, {w \in Watchers : SetHas(sources[w], s)})
                      ELSE notifiedTurn)
    /\ UNCHANGED ctlVars

\* c.get() called by user code, outside any derivation
Get(c) ==
    /\ CanCall
    /\ c \in Made(cfg)
    /\ LET h1 == ComputedGetEnter(Heap, c)
       IN  IF h1.dirty[c]
           THEN /\ Commit([h1 EXCEPT !.ran = @ \cup {c}])
                /\ stack' = <<Frame(c, currentComputed, FALSE, Null)>>
                /\ Observe(h1, NoRet, NoSet, evals, changed, notifiedTurn)
           ELSE /\ Commit([h1 EXCEPT !.cur = currentComputed])
                /\ stack' = stack
                /\ Observe(h1, [sig |-> c, val |-> h1.cvalue[c], afterChange |-> changed[c]],
                           NoSet, evals, [changed EXCEPT ![c] = FALSE], notifiedTurn)
    /\ UNCHANGED <<cfg, raising, ctx, cbw>>

\* The next read of the running derivation is a get() of a dirty Computed,
\* which calls that Computed's derivation.
CallsDerivation ==
    /\ stack # <<>>
    /\ ~raising
    /\ Top.pc <= Len(computation(cfg, Top.c))
    /\ LET rd == computation(cfg, Top.c)[Top.pc]
       IN  /\ ~(rd.guard = "ifOdd" /\ Top.first % 2 = 0)
           /\ rd.sig \in Computeds
           /\ dirty[rd.sig]

\* The call stack is exhausted: the host raises a RangeError in place of the
\* next nested call, and the error unwinds the get() calls in progress.
Overflow ==
    /\ CallsDerivation
    /\ Len(stack) >= MaxDepth
    /\ Commit([Heap EXCEPT !.thrown = "RangeError"])
    /\ raising' = TRUE
    /\ Observe(Heap, NoRet, NoSet, evals, changed, notifiedTurn)
    /\ UNCHANGED <<cfg, stack, ctx, cbw>>

\* The running derivation performs its next read.
Step ==
    /\ stack # <<>>
    /\ ~raising
    /\ Top.pc <= Len(computation(cfg, Top.c))
    /\ CallsDerivation => Len(stack) < MaxDepth
    /\ LET f == Top
           rd == computation(cfg, f.c)[f.pc]
           h0 == IF rd.track THEN Heap ELSE [Heap EXCEPT !.cur = Null]
       IN  IF rd.guard = "ifOdd" /\ f.first % 2 = 0
           THEN /\ Commit(Heap)
                /\ stack' = [stack EXCEPT ![Len(stack)] = [f EXCEPT !.pc = @ + 1]]
                /\ Observe(Heap, NoRet, NoSet, evals, changed, notifiedTurn)
           ELSE IF rd.sig \in States
           THEN LET h == IF rd.track THEN StateGet(Heap, rd.sig) ELSE untrack(Heap, rd.sig)
                IN  /\ Commit(h)
                    /\ stack' = [stack EXCEPT ![Len(stack)] = Deliver(f, StateGetReturn(h, rd.sig))]
                    /\ Observe(h, NoRet, NoSet, evals, changed, notifiedTurn)
           ELSE LET h1 == ComputedGetEnter(h0, rd.sig)
                IN  IF h1.dirty[rd.sig]
                    THEN /\ Commit([h1 EXCEPT !.ran = @ \cup {rd.sig}])
                         /\ stack' = Append(stack, Frame(rd.sig, h0.cur, ~rd.track, currentComputed))
                         /\ Observe(h1, NoRet, NoSet, evals, changed, notifiedTurn)
                    ELSE /\ Commit([h1 EXCEPT !.cur = currentComputed])
                         /\ stack' = [stack EXCEPT ![Len(stack)] = Deliver(f, h1.cvalue[rd.sig])]
                         /\ Observe(h1, NoRet, NoSet, evals, changed, notifiedTurn)
    /\ UNCHANGED <<cfg, raising, ctx, cbw>>

\* The running derivation returns its result, or raises.
Finish ==
    /\ stack # <<>>
    /\ ~raising
    /\ Top.pc > Len(computation(cfg, Top.c))
    /\ LET f == Top
           val == f.acc
       IN  IF computationThrows(cfg, f.c, val)
           THEN /\ Commit(Restore(ComputedGetThrow(Heap, f.c), f))
                /\ stack' = Pop
                /\ raising' = (Len(stack) > 1)
                /\ Observe(Heap, NoRet, NoSet, evals, changed, notifiedTurn)
           ELSE LET h == Restore(ComputedGetFinish(Heap, f.c, val), f)
                    ev == [evals EXCEPT ![f.c] = Min(@ + 1, CountCap)]
                IN  /\ Commit(h)
                    /\ raising' = FALSE
                    /\ IF Len(stack) > 1
                       THEN /\ stack' = [Pop EXCEPT ![Len(stack) - 1] = Deliver(@, val)]
                            /\ Observe(h, NoRet, NoSet, ev, changed, notifiedTurn)
                       ELSE /\ stack' = <<>>
                            /\ Observe(h, [sig |-> f.c, val |-> val, afterChange |-> changed[f.c]],
                                       NoSet, ev, [changed EXCEPT ![f.c] = FALSE],
                                       notifiedTurn)
    /\ UNCHANGED <<cfg, ctx, cbw>>

\* The error leaves the next enclosing get() through its finally block.
Unwind ==
    /\ raising
    /\ stack # <<>>
    /\ Commit(Restore(ComputedGetThrow(Heap, Top.c), Top))
    /\ stack' = Pop
    /\ raising' = (Len(stack) > 1)
    /\ Observe(Heap, NoRet, NoSet, evals, changed, notifiedTurn)
    /\ UNCHANGED <<cfg, ctx, cbw>>

\* w.watch(signal) called by the task
Watch(w, signal) ==
    /\ CanCall
    /\ ctx = "task"
    /\ signal \in Watchable(cfg, w)
    /\ LET h == WatcherWatch(Heap, w, signal)
       IN  /\ Commit(h)
           /\ Observe(h, NoRet, NoSet, evals, changed, notifiedTurn)
    /\ UNCHANGED ctlVars

\* w.unwatch(signal) called by the task
Unwatch(w, signal) ==
    /\ CanCall
    /\ ctx = "task"
    /\ signal \in Watchable(cfg, w)
    /\ LET h == WatcherUnwatch(Heap, w, signal)
       IN  /\ Commit(h)
           /\ Observe(h, NoRet, NoSet, evals, changed, notifiedTurn)
    /\ UNCHANGED ctlVars

\* Argument lists holding NotASignal: alone, or after a valid signal.
InvalidArgs == {<<NotASignal>>} \cup {<<x, NotASignal>> : x \in Signals}

\* The task passes the list to w: its valid signal is one the program hands
\* to w.
Passes(w, signals) == Len(signals) = 1 \/ signals[1] \in Watchable(cfg, w)

\* w.watch(...signals) called by the task with an invalid argument
WatchInvalid(w, signals) ==
    /\ CanCall
    /\ PassesInvalid(cfg)
    /\ Passes(w, signals)
    /\ LET h == WatcherWatchAll(Heap, w, signals)
       IN  /\ Commit(h)
           /\ Observe(h, NoRet, NoSet, evals, changed, notifiedTurn)
    /\ UNCHANGED ctlVars

\* w.unwatch(...signals) called by the task with an invalid argument
UnwatchInvalid(w, signals) ==
    /\ CanCall
    /\ PassesInvalid(cfg)
    /\ Passes(w, signals)
    /\ LET h == WatcherUnwatchAll(Heap, w, signals)
       IN  /\ Commit(h)
           /\ Observe(h, NoRet, NoSet, evals, changed, notifiedTurn)
    /\ UNCHANGED ctlVars

\* The task's synchronous code ends; the host reaches a microtask checkpoint.
EndTurn ==
    /\ ctx = "task"
    /\ stack = <<>>
    /\ ~raising
    /\ ctx' = "idle"
    /\ Commit(Heap)
    /\ Observe(Heap, NoRet, NoSet, evals, changed, notifiedTurn)
    /\ UNCHANGED <<cfg, stack, raising, cbw>>

\* A firing that leaves #scheduled set.
WatcherFireStayScheduled(h, w) ==
    LET h1 == [h EXCEPT !.fired = w]
    IN  IF Len(h1.pending[w]) # 0 THEN [h1 EXCEPT !.invoked = @ \cup {w}] ELSE h1

\* A firing that calls the user callback whatever #pending holds.
WatcherFireUnchecked(h, w) ==
    LET h1 == [h EXCEPT !.scheduled[w] = FALSE, !.fired = w]
    IN  [h1 EXCEPT !.invoked = @ \cup {w}]

\* The microtask queued by Watcher[notify], up to the call of the user
\* callback.
WatcherFire(h, w) ==
    LET h1 == [h EXCEPT !.scheduled[w] = FALSE, !.fired = w]
    IN  IF Len(h1.pending[w]) # 0 THEN [h1 EXCEPT !.invoked = @ \cup {w}] ELSE h1

\* A failing callback that takes the firings still queued down with it.
WatcherFireThrowAbort(h, w) ==
    [h EXCEPT !.notified[w] = {}, !.thrown = "CallbackError", !.queue = <<>>]

\* The microtask of w when the user callback raises: it ends there, before
\* #pending.clear(); the host reports the error and goes on with the queue.
WatcherFireThrow(h, w) ==
    [h EXCEPT !.notified[w] = {}, !.thrown = "CallbackError"]

\* The host runs the oldest queued microtask.
Fire ==
    /\ ctx = "idle"
    /\ microtasks # <<>>
    /\ LET w == Head(microtasks)
           h == WatcherFire([Heap EXCEPT !.queue = Tail(@)], w)
       IN  /\ Commit(h)
           /\ ctx' = IF w \in h.invoked THEN "callback" ELSE "idle"
           /\ cbw' = IF w \in h.invoked THEN w ELSE Null
           /\ Observe(h, NoRet, NoSet, evals, changed, notifiedTurn)
    /\ UNCHANGED <<cfg, stack, raising>>

\* The user callback returns; the microtask clears #pending.
CallbackReturn ==
    /\ ctx = "callback"
    /\ stack = <<>>
    /\ ~raising
    /\ LET h == [Heap EXCEPT !.pending[cbw] = <<>>, !.notified[cbw] = {}]
       IN  /\ Commit(h)
           /\ Observe(h, NoRet, NoSet, evals, changed, notifiedTurn)
    /\ ctx' = "idle"
    /\ cbw' = Null
    /\ UNCHANGED <<cfg, stack, raising>>

\* The user callback raises; the microtask ends there and the host reports
\* the error.
CallbackThrow ==
    /\ ctx = "callback"
    /\ stack = <<>>
    /\ ~raising
    /\ CallbackMayThrow(cfg, cbw)
    /\ LET h == WatcherFireThrow(Heap, cbw)
       IN  /\ Commit(h)
           /\ Observe(h, NoRet, NoSet, evals, changed, notifiedTurn)
    /\ ctx' = "idle"
    /\ cbw' = Null
    /\ UNCHANGED <<cfg, stack, raising>>

\* The microtask queue is empty; the host starts the next task.
StartTask ==
    /\ ctx = "idle"
    /\ microtasks = <<>>
    /\ ctx' = "task"
    /\ Commit(Heap)
    /\ ret' = NoRet
    /\ lastSet' = NoSet
    /\ notifiedTurn' = [w \in Watchers |-> 0]
    /\ callsTurn' = [w \in Watchers |-> 0]
    /\ UNCHANGED <<cfg, stack, raising, cbw, evals, changed, callsSet>>

Next ==
    \/ \E s \in States, v \in 1..(MaxVal + 1) : Set(s, v)
    \/ \E c \in Computeds : Get(c)
    \/ Step
    \/ Overflow
    \/ Finish
    \/ Unwind
    \/ \E w \in Watchers, x \in Signals : Watch(w, x)
    \/ \E w \in Watchers, x \in Signals : Unwatch(w, x)
    \/ \E w \in Watchers, signals \in InvalidArgs : WatchInvalid(w, signals)
    \/ \E w \in Watchers, signals \in InvalidArgs : UnwatchInvalid(w, signals)
    \/ EndTurn
    \/ Fire
    \/ CallbackReturn
    \/ CallbackThrow
    \/ StartTask

Spec == Init /\ [][Next]_vars

\* Run to completion: a running derivation proceeds, the task's synchronous
\* code ends, the host runs every queued microtask, and a user callback ends
\* (by returning or by raising).
FairSpec ==
    /\ Spec
    /\ WF_vars(Step \/ Overflow \/ Finish \/ Unwind)
    /\ WF_vars(EndTurn)
    /\ WF_vars(Fire)
    /\ WF_vars(CallbackReturn \/ CallbackThrow)

\* ------------------------------------------------------------------ claims
\* No Computed.get() is in progress.
Quiet == stack = <<>> /\ ~raising

\* The last step was a top-level get() of a Computed returning.
Returned(c) == ret.sig = c

\* C1: whenever no get() is in progress, every clean Computed (default
\* equality, tracked reads only) caches the value its derivation gives on the
\* current State values.
C1_CleanIsCurrent ==
    Quiet =>
        \A c \in Made(cfg) :
            (cfg = "diamond" /\ TrackedOnly(cfg, c) /\ ~dirty[c])
                => cvalue[c] = EvalRef(cfg, c, value)

\* C2: in the diamond, sum.get() returns left + right computed from the
\* current root value (5 for root = 1, 10 after root.set(2)); in general a
\* Computed reading Computeds returns the value computed from the current
\* States.
C2_DiamondFresh ==
    \A c \in Computeds :
        (Returned(c) /\ cfg = "diamond" /\ TrackedOnly(cfg, c) /\ ~DirectOnly(cfg, c))
            => ret.val = EvalRef(cfg, c, value)

\* C3: a Computed reading only States, already evaluated once, returns from
\* the first get() after a value-changing set of one of those States the
\* derivation's value on the current State values.
C3_DirectFresh ==
    \A c \in Computeds :
        (Returned(c) /\ DirectOnly(cfg, c) /\ ret.afterChange)
            => ret.val = EvalRef(cfg, c, value)

C3_Witness ==
    /\ cfg = "direct"
    /\ Returned("c1")
    /\ ret.afterChange
    /\ ret.val # cvalue["c1"]

\* C4: a State.set with an argument equal to the stored value changes no
\* value, dirty flag, cached value, source or sink set, pending set, scheduled
\* flag or queued firing, and runs no derivation.
C4_WriteSuppression ==
    [][(lastSet'.s # Null
        /\ equals(optionsEquals(cfg, lastSet'.s), value[lastSet'.s], lastSet'.arg))
        => /\ UNCHANGED <<value, dirty, cvalue, sources, sinks, pending, scheduled, microtasks>>
           /\ ran' = {}
           /\ invoked' = {}]_vars

C4_Witness ==
    /\ lastSet.s # Null
    /\ optionsEquals(cfg, lastSet.s) = "parity"
    /\ value[lastSet.s] # lastSet.arg
    /\ SetHas(sinks[lastSet.s], "w1")
    /\ ~scheduled["w1"]

\* C5: s.get() right after s.set(v) returns v when the equality says old and
\* v differ, and the old value when it says they are equal.
C5_SetThenGet ==
    [][lastSet'.s # Null
        => StateGetReturn(StateGet(Heap', lastSet'.s), lastSet'.s)
             = IF equals(optionsEquals(cfg, lastSet'.s), value[lastSet'.s], lastSet'.arg)
               THEN value[lastSet'.s] ELSE lastSet'.arg]_vars

C5_Witness ==
    /\ lastSet.s # Null
    /\ optionsEquals(cfg, lastSet.s) = "parity"
    /\ value[lastSet.s] # lastSet.arg
    /\ equals("parity", value[lastSet.s], lastSet.arg)
    /\ sinks[lastSet.s] = <<>>

\* C6: a derivation is invoked only by a step that enters get() on its own
\* Computed: never by a set, dirty propagation, watch, unwatch or a firing.
C6_Lazy ==
    ran # {} =>
        /\ stack # <<>>
        /\ ran = {Top.c}
        /\ Top.pc = 1
        /\ currentComputed = Top.c

C6_Witness ==
    /\ ran = {"c1"}
    /\ cvalue["c1"] # initial
    /\ Len(stack) = 2

\* C7: between two value-changing sets the derivation of a Computed returns
\* at most once, however many get() calls are made.
C7_Memoized == \A c \in Computeds : evals[c] <= 1

C7_Witness ==
    /\ Returned("c3")
    /\ evals["c3"] = 1
    /\ evals["c1"] = 1
    /\ ran = {}
    /\ ~ret.afterChange

C10_PendingExact ==
    \A w \in invoked :
        /\ Range(getPending(Heap, w)) = notified[w]
        /\ NoDup(getPending(Heap, w))

\* The firings of Watcher w in the microtask queue q.
QueuedFor(q, w) == SelectSeq(q, LAMBDA x : x = w)

C12_UnwatchDiscardsPending ==
    [][\A w \in Watchers, s \in Signals :
        (SetHas(sources[w], s) /\ ~SetHas(sources'[w], s))
            => ~SetHas(pending'[w], s)]_vars

\* C13: when a queued firing of a Watcher runs while its pending set is
\* empty, the user callback is not invoked and scheduled is reset to false.
C13_EmptyFiringSilent ==
    [][\A w \in Watchers :
        (fired' = w /\ getPending(Heap, w) = <<>>)
            => /\ w \notin invoked'
               /\ ~scheduled'[w]
               /\ ctx' = "idle"]_vars

C13_Witness ==
    /\ fired = "w1"
    /\ invoked = {}
    /\ scheduled = [w \in Watchers |-> FALSE]
    /\ pending["w1"] = <<>>
    /\ ctx = "idle"

\* The Watchers in the sink set sk[s].
WatchersOf(sk, s) == Range(sk[s]) \cap Watchers

\* How many times the hook of the given kind of s occurs in the call log q.
HookCalls(q, kind, s) == Len(SelectSeq(q, LAMBDA e : e = <<kind, s>>))

\* C14: for a signal created with a watched hook, a step invokes the hook
\* exactly once if it takes the signal from no Watcher to at least one, and
\* not at all otherwise (in particular not when a Watcher watches a signal
\* that is already watched).
C14_WatchedHookOnce ==
    [][\A s \in Signals :
        optionsWatched(cfg, s)
            => HookCalls(hooks', "watched", s)
                 = IF WatchersOf(sinks, s) = {} /\ WatchersOf(sinks', s) # {} THEN 1 ELSE 0]_vars

\* C15: for a signal created with an unwatched hook, a step invokes the hook
\* exactly once if it removes the signal's last Watcher, and not at all
\* otherwise (another Watcher still watches it, or it was not watched).
C15_UnwatchedHookOnce ==
    [][\A s \in Signals :
        optionsUnwatched(cfg, s)
            => HookCalls(hooks', "unwatched", s)
                 = IF WatchersOf(sinks, s) # {} /\ WatchersOf(sinks', s) = {} THEN 1 ELSE 0]_vars

\* C16: in every reachable state, for every Watcher w and every State or
\* Computed s, w is in introspectSinks(s) exactly if s is in
\* introspectSources(w): both after watch(s), neither after unwatch(s).
C16_WatcherEdgeSymmetry ==
    \A w \in Watchers, s \in Signals :
        SetHas(introspectSinks(Heap, s), w) <=> SetHas(introspectSources(Heap, w), s)

C16_Witness ==
    /\ cfg = "watch"
    /\ introspectSources(Heap, "w1") = <<"s2">>
    /\ introspectSinks(Heap, "s2") = <<"w1">>
    /\ "s1" \in released["w1"]
    /\ introspectSinks(Heap, "s1") = <<>>
    /\ value["s1"] = 2

\* C17: whenever no get() is in progress, for every Computed c and every
\* State or Computed x, c is in introspectSinks(x) exactly if x is in
\* introspectSources(c).
C17_ComputedEdgeSymmetry ==
    Quiet =>
        \A c \in Computeds, x \in Signals :
            SetHas(introspectSinks(Heap, x), c) <=> SetHas(introspectSources(Heap, c), x)

\* The States and Computeds the derivation of c reads with tracked get()
\* calls when the States hold the values vs.
TrackedReads(g, c, vs) ==
    LET rs == computation(g, c)
        first == IF rs[1].sig \in States THEN vs[rs[1].sig] ELSE EvalRef(g, rs[1].sig, vs)
    IN  {rs[i].sig : i \in {j \in 1..Len(rs) :
                               rs[j].track /\ ~(rs[j].guard = "ifOdd" /\ first % 2 = 0)}}

\* The step completes a successful evaluation of the dirty Computed c.
Evaluated(c) == dirty[c] /\ ~dirty'[c]

\* C18: right after a get() successfully evaluated a dirty Computed c,
\* introspectSources(c) holds exactly the signals the derivation read with
\* tracked get() calls during that evaluation, and hasSources(c) tells
\* whether it read at least one.
C18_SourcesAreReads ==
    [][\A c \in Computeds :
        Evaluated(c)
            => /\ Range(introspectSources(Heap', c)) = TrackedReads(cfg, c, value)
               /\ hasSources(Heap', c) <=> (TrackedReads(cfg, c, value) # {})]_vars

\* C19: after a re-evaluation of Computed c that does not read the State a,
\* c is not in introspectSinks(a) (so a later a.set(...) cannot mark c dirty
\* or make its derivation run again).
C19_StaleEdgePruned ==
    [][\A c \in Computeds, a \in States :
        (Evaluated(c) /\ a \notin TrackedReads(cfg, c, value))
            => ~SetHas(introspectSinks(Heap', a), c)]_vars

\* c reads s, and only inside Signal.subtle.untrack.
UntrackedOnly(g, c, s) ==
    /\ ReadsSig(g, c, s)
    /\ \A i \in 1..Len(computation(g, c)) :
           computation(g, c)[i].sig = s => ~computation(g, c)[i].track

\* C20: for a Computed c that reads State s only inside untrack, s is never
\* in introspectSources(c), c is never in introspectSinks(s), a s.set(...)
\* neither changes c's dirty flag nor runs its derivation, and get() on the
\* clean c returns the cached value without running the derivation.
C20_UntrackedIsolated ==
    [][\A c \in Made(cfg), s \in States :
        UntrackedOnly(cfg, c, s)
            => /\ ~SetHas(introspectSources(Heap', c), s)
               /\ ~SetHas(introspectSinks(Heap', s), c)
               /\ lastSet'.s = s => (dirty'[c] = dirty[c] /\ c \notin ran')
               /\ (ret'.sig = c /\ ~dirty[c]) => (ret'.val = cvalue[c] /\ c \notin ran')]_vars

C20_Witness ==
    /\ cfg = "untracked"
    /\ lastSet.s = "s2"
    /\ ~dirty["c1"]
    /\ cvalue["c1"] # initial
    /\ cvalue["c1"] # EvalRef(cfg, "c1", value)
    /\ introspectSinks(Heap, "s1") = <<"c1">>

\* C21: currentComputed() is the innermost evaluating Computed while a get()
\* is in progress, also while an error unwinds, and none otherwise: every
\* exit of a get() or untrack, normal or by error, restores the value found
\* on entry.  On entry a get() finds the calling Computed, or none at top
\* level and inside an untrack callback.
C21_TrackingContext ==
    /\ currentComputed = IF stack = <<>> THEN Null ELSE Top.c
    /\ \A i \in 1..Len(stack) :
           stack[i].old = IF i = 1 \/ stack[i].ut THEN Null ELSE stack[i - 1].c

C21_Witness ==
    /\ cfg = "nested"
    /\ raising
    /\ Len(stack) = 1
    /\ Top.c = "c3"
    /\ currentComputed = "c3"

\* c depends on State s through tracked reads: it reads s, or it reads a
\* Computed that depends on s.
RECURSIVE DependsOn(_, _, _)
DependsOn(g, c, s) ==
    \E i \in 1..Len(computation(g, c)) :
        LET rd == computation(g, c)[i]
        IN  rd.track /\ (rd.sig = s \/ (rd.sig \in Computeds /\ DependsOn(g, rd.sig, s)))

\* The step is a s.set(...) whose argument differs from the stored value.
ChangingSet(s) ==
    /\ lastSet'.s = s
    /\ ~equals(optionsEquals(cfg, s), value[s], lastSet'.arg)

\* C22: when Watcher w watches an evaluated Computed c that depends on State
\* s directly or through other Computeds, a value-changing s.set(...) puts c
\* into w's pending set and leaves a firing of w queued (whose callback then
\* finds c in getPending()).
C22_TransitiveNotification ==
    [][\A w \in Watchers, c \in Made(cfg), s \in States :
        (ChangingSet(s) /\ SetHas(sources[w], c) /\ cvalue[c] # initial /\ ~dirty[c]
         /\ DependsOn(cfg, c, s))
            => /\ SetHas(getPending(Heap', w), c)
               /\ scheduled'[w]
               /\ QueuedFor(microtasks', w) # <<>>]_vars

\* C23: a watch(...) or unwatch(...) call that raises the type error leaves
\* every source set, sink set and pending set as it was and fires no hook,
\* also when valid signals precede the invalid argument.
C23_TypeErrorNoEffect ==
    [][thrown' = "TypeError"
        => /\ UNCHANGED <<sources, sinks, pending>>
           /\ hooks' = <<>>]_vars

\* C24: a value-changing set that reaches only Computeds which are already
\* dirty notifies no sink again: a Watcher whose watched signals are all
\* dirty Computeds gets no pending entry and no firing from it.
C24_IdempotentDirtying ==
    [][\A w \in Watchers :
        (lastSet'.s # Null
         /\ introspectSources(Heap, w) # <<>>
         /\ \A x \in Range(introspectSources(Heap, w)) : x \in Computeds /\ dirty[x])
            => /\ getPending(Heap', w) = getPending(Heap, w)
               /\ scheduled'[w] = scheduled[w]
               /\ QueuedFor(microtasks', w) = QueuedFor(microtasks, w)]_vars

\* C25: in the diamond, once sum (c3) has been evaluated, a value-changing
\* root.set marks left (c1), right (c2) and sum dirty, and when a sum.get()
\* returns, the derivations of left, right and sum have each run exactly once
\* since the last value-changing root.set.
C25_DiamondOnce ==
    [][cfg = "diamond"
        => /\ (ChangingSet("s1") /\ cvalue["c3"] # initial)
                => \A c \in Computeds : dirty'[c]
           /\ ret'.sig = "c3" => \A c \in Computeds : evals'[c] = 1]_vars

\* C26: when the derivation of Computed c raises (by itself, or because a
\* get() it called raised), c.get() exits with the error and returns no
\* value, the error reaches the calling derivation if there is one, c is
\* dirty as before with the same cached value (so a later get() runs the
\* derivation again), and no Computed or Watcher is notified.
C26_DerivationError ==
    [][\A c \in Computeds :
        (thrown' = "Error" /\ stack # <<>> /\ Top.c = c)
            => /\ dirty[c] /\ dirty' = dirty
               /\ cvalue' = cvalue
               /\ UNCHANGED <<pending, scheduled, microtasks>>
               /\ invoked' = {}
               /\ ret' = NoRet
               /\ stack' = Pop
               /\ raising' = (stack' # <<>>)]_vars

C26_Witness ==
    /\ cfg = "nested"
    /\ thrown = "Error"
    /\ stack = <<>>
    /\ SetHas(introspectSinks(Heap, "c2"), "w1")
    /\ SetHas(introspectSources(Heap, "c1"), "c2")
    /\ dirty["c2"]
    /\ cvalue["c1"] # initial
    /\ dirty["c1"]
    /\ getPending(Heap, "w1") = <<>>

\* C27: when the user callback of one Watcher raises, every State value,
\* Computed flag and cached value, edge, scheduled flag and queued firing is
\* left as it was, and every other Watcher that has a firing queued with a
\* signal pending still gets its callback invoked.
C27_OthersStillFire ==
    /\ [][thrown' = "CallbackError"
            => UNCHANGED <<value, dirty, cvalue, sources, sinks, scheduled, microtasks>>]_vars
    /\ \A w \in Watchers :
           (thrown = "CallbackError" /\ QueuedFor(microtasks, w) # <<>>
            /\ getPending(Heap, w) # <<>>)
               ~> (w \in invoked)

C27_Witness ==
    /\ cfg = "pair"
    /\ invoked = {"w2"}
    /\ callsTurn["w1"] = 1
    /\ getPending(Heap, "w1") = <<"s1">>
    /\ ~scheduled["w1"]
    /\ microtasks = <<>>

\* C28: when the derivation of a Computed outer reads a Computed inner with a
\* tracked get(), then once that inner.get() has returned outer is in
\* introspectSinks(inner) and inner is in introspectSources(outer), and
\* outer is never in inner's own source set.
C28_InnerOuterEdge ==
    \A i \in 1..Len(stack) :
        LET outer == stack[i].c
            rs == computation(cfg, outer)
        IN  /\ \A j \in 1..(stack[i].pc - 1) :
                   (rs[j].sig \in Computeds /\ rs[j].track /\ ~raising)
                       => /\ SetHas(introspectSinks(Heap, rs[j].sig), outer)
                          /\ SetHas(introspectSources(Heap, outer), rs[j].sig)
            /\ \A inner \in Computeds :
                   ReadsSig(cfg, outer, inner)
                       => ~SetHas(introspectSources(Heap, inner), outer)

\* C29: for every Watcher, scheduled is true exactly when one firing of it
\* is queued and has not started to run, and never more than one firing of a
\* Watcher is queued.
C29_ScheduledIffQueued ==
    \A w \in Watchers :
        /\ Len(QueuedFor(microtasks, w)) <= 1
        /\ scheduled[w] <=> (QueuedFor(microtasks, w) # <<>>)

C29_Witness ==
    /\ cfg = "watch"
    /\ notifiedTurn["w1"] = CountCap
    /\ Len(getPending(Heap, "w1")) = 2
    /\ scheduled["w1"]
    /\ microtasks = <<"w1">>

\* C30: when the re-evaluation of a dirty Computed c gives a result equal,
\* by c's equality, to the cached value, the cached value is kept, no sink is
\* notified and no Watcher scheduled by that evaluation, c becomes clean, and
\* every other Computed keeps its dirty flag.
C30_EqualReevaluation ==
    [][\A c \in Computeds :
        (Evaluated(c) /\ stack # <<>> /\ Top.c = c
         /\ equals(optionsEquals(cfg, c), Top.acc, cvalue[c]))
            => /\ cvalue' = cvalue
               /\ UNCHANGED <<pending, scheduled, microtasks>>
               /\ invoked' = {}
               /\ \A d \in Computeds \ {c} : dirty'[d] = dirty[d]]_vars

C30_Witness ==
    /\ cfg = "effect"
    /\ ret.sig = "c1"
    /\ evals["c1"] = 1
    /\ ~dirty["c1"]
    /\ ret.val # cvalue["c1"]
    /\ SetHas(introspectSinks(Heap, "c1"), "w1")
    /\ getPending(Heap, "w1") = <<>>
    /\ ~scheduled["w1"]

\* C31: once the user callback of Watcher w has made a value-changing set
\* on a State s that w watches (which leaves a firing of w scheduled while
\* the callback runs), a later invocation of w's callback follows in which
\* getPending() contains s.
C31_CallbackWriteNotLost ==
    \A w \in Watchers, s \in States :
        (ctx = "callback" /\ cbw = w /\ lastSet.s = s /\ scheduled[w]
         /\ SetHas(introspectSources(Heap, w), s))
            ~> (w \in invoked /\ SetHas(getPending(Heap, w), s))

\* C32: after a value-changing State.set, and until the next one, the
\* callback of a Watcher is invoked at most once, whenever the Computeds it
\* watches are read.
C32_NoDoubleNotification == \A w \in Watchers : callsSet[w] <= 1

\* What introspectSources and introspectSinks return for every entity.
Edges(h) == <<h.sources, h.sinks>>

\* C33: in every reachable state, for every Watcher w and signal s:
\* watch(s) on a watched s and unwatch(s) on an unwatched s change no source
\* or sink set, and watch(s) followed by unwatch(s) on an unwatched s gives
\* back the source and sink sets there were before.
C33_WatchSetOperations ==
    \A w \in Watchers, s \in Signals :
        IF SetHas(introspectSources(Heap, w), s)
        THEN Edges(WatcherWatch(Heap, w, s)) = Edges(Heap)
        ELSE /\ Edges(WatcherUnwatch(Heap, w, s)) = Edges(Heap)
             /\ Edges(WatcherUnwatch(WatcherWatch(Heap, w, s), w, s)) = Edges(Heap)
             /\ hasSinks(WatcherUnwatch(WatcherWatch(Heap, w, s), w, s), s)
                    = hasSinks(Heap, s)
             /\ hasSources(WatcherUnwatch(WatcherWatch(Heap, w, s), w, s), w)
                    = hasSources(Heap, w)

C33_Witness ==
    /\ cfg = "watch"
    /\ introspectSources(Heap, "w1") = <<"s1">>
    /\ "s2" \in released["w1"]
    /\ ~hasSinks(Heap, "s2")
    /\ scheduled["w1"]

\* C34: when a top-level get() of a Computed has returned, a second get()
\* made right after it (no State.set in between) returns the same value,
\* also under a custom equality.
C34_StableReads ==
    [][ret'.sig # Null
        => /\ ~dirty'[ret'.sig]
           /\ ComputedGetReturn(Heap', ret'.sig) = ret'.val]_vars

\* C35: get() never returns the uninitialized marker, and a Computed that
\* has been evaluated successfully caches a value other than the marker,
\* whatever its equality function.
C35_NeverInitial ==
    /\ ret.sig # Null => ret.val # initial
    /\ \A c \in Computeds : ~dirty[c] => cvalue[c] # initial

C37_PendingClearedAfterFiring ==
    [][(ctx = "callback" /\ ctx' = "idle") => getPending(Heap', cbw) = <<>>]_vars

====
